---- MODULE Spec2Model ----
(***************************************************************************)
(* litcrypt: build-time string-literal obfuscation (use_litcrypt!, lc!)    *)
(* and the decoder it embeds into the target program                       *)
(* (litcrypt_internal::xor / decrypt_bytes), modelled from                 *)
(* src/src/litcrypt.rs.                                                    *)
(*                                                                         *)
(* Bytes are numbers 0..255, byte strings and texts are sequences of them. *)
(* The build session (one compiler process expanding the macros) comes     *)
(* first; the compiled program, whose threads call decrypt_bytes, follows. *)
(***************************************************************************)
EXTENDS Integers, Sequences, FiniteSets, TLC

\* Literals one build session may obfuscate.
MaxLits == 1
\* Longest key and longest data of a direct decrypt_bytes call.
MaxKeyLen == 3
MaxDataLen == 4
\* Threads of the compiled program.
NThreads == 2
\* Length of the cached random key, [u8; 64].
RAND_LEN == 64

Threads == 1..NThreads

VARIABLES
  env,                  \* the process environment's LITCRYPT_ENCRYPT_KEY
  RAND_SPELL,           \* the lazy_static cell
  rngFills,             \* times OsRng.fill_bytes ran
  envReads,             \* times env::var ran
  acquires,             \* get_magic_spell calls so far
  firstSpell,           \* what the first get_magic_spell call returned
  lastSpell,            \* what the latest get_magic_spell call returned
  LITCRYPT_ENCRYPT_KEY, \* the static emitted by use_litcrypt!, as literal text
  literals,             \* the lc! expansions: plaintext, emitted literal text, key used
  phase,                \* "build" while macros expand, "run" once the program is compiled
  pc,                   \* per thread: where its decrypt_bytes call stands
  site,                 \* per thread: the lc! site calling (0: a direct call)
  encrypted,            \* per thread: decrypt_bytes' first argument
  encrypt_key,          \* per thread: decrypt_bytes' second argument
  key_iter,             \* per thread: the InfiniteByteIterator of its xor call
  decrypted,            \* per thread: the output collected so far
  visited,              \* per thread: the key indices its iterator has read
  ret                   \* per thread: the call's outcome

buildVars == <<env, RAND_SPELL, rngFills, envReads, acquires, firstSpell,
               lastSpell, LITCRYPT_ENCRYPT_KEY, literals>>
runVars == <<pc, site, encrypted, encrypt_key, key_iter, decrypted, visited, ret>>
vars == <<buildVars, phase, runVars>>

----------------------------------------------------------------------------
(* Bytes *)

RECURSIVE BitXor(_, _, _)
BitXor(a, b, n) ==
  IF n = 0 THEN 0
  ELSE ((a + b) % 2) + 2 * BitXor(a \div 2, b \div 2, n - 1)

\* Variant: | in place of ^.
RECURSIVE BitOr(_, _, _)
BitOr(a, b, n) ==
  IF n = 0 THEN 0
  ELSE (IF a % 2 = 1 \/ b % 2 = 1 THEN 1 ELSE 0) + 2 * BitOr(a \div 2, b \div 2, n - 1)

ByteOr(a, b) == BitOr(a, b, 8)

\* a ^ b on u8.
ByteXor(a, b) == BitXor(a, b, 8)

\* Well-formed UTF-8 (what String::from_utf8 and env::var accept).
Cont(b) == b >= 128 /\ b <= 191

RECURSIVE Utf8From(_, _)
Utf8From(s, i) ==
  IF i > Len(s) THEN TRUE
  ELSE LET b == s[i]
           has(k) == i + k <= Len(s)
       IN  IF b <= 127 THEN Utf8From(s, i + 1)
           ELSE IF b >= 194 /\ b <= 223
             THEN has(1) /\ Cont(s[i + 1]) /\ Utf8From(s, i + 2)
           ELSE IF b >= 224 /\ b <= 239
             THEN /\ has(2)
                  /\ Cont(s[i + 1]) /\ Cont(s[i + 2])
                  /\ (b = 224 => s[i + 1] >= 160)
                  /\ (b = 237 => s[i + 1] <= 159)
                  /\ Utf8From(s, i + 3)
           ELSE IF b >= 240 /\ b <= 244
             THEN /\ has(3)
                  /\ Cont(s[i + 1]) /\ Cont(s[i + 2]) /\ Cont(s[i + 3])
                  /\ (b = 240 => s[i + 1] >= 144)
                  /\ (b = 244 => s[i + 1] <= 143)
                  /\ Utf8From(s, i + 4)
           ELSE FALSE

Utf8Valid(s) == Utf8From(s, 1)

\* The longest well-formed prefix of s.
RECURSIVE ValidPrefix(_, _)
ValidPrefix(s, n) ==
  IF n = 0 \/ Utf8Valid(SubSeq(s, 1, n)) THEN SubSeq(s, 1, n) ELSE ValidPrefix(s, n - 1)

----------------------------------------------------------------------------
(* Byte-string literals: the text Literal::byte_string writes and the      *)
(* bytes the compiler reads back from it.                                  *)

HexDigit(n) == IF n < 10 THEN 48 + n ELSE 55 + n

EscapeByte(b) ==
  CASE b = 0  -> <<92, 48>>
    [] b = 9  -> <<92, 116>>
    [] b = 10 -> <<92, 110>>
    [] b = 13 -> <<92, 114>>
    [] b = 34 -> <<92, 34>>
    [] b = 92 -> <<92, 92>>
    [] b >= 32 /\ b <= 126 /\ b # 34 /\ b # 92 -> <<b>>
    [] OTHER -> <<92, 120, HexDigit(b \div 16), HexDigit(b % 16)>>

\* The escapes of bytes[lo..hi], in order.
RECURSIVE EscapeAll(_, _, _)
EscapeAll(bytes, lo, hi) ==
  IF lo > hi THEN <<>>
  ELSE IF lo = hi THEN EscapeByte(bytes[lo])
  ELSE LET mid == (lo + hi) \div 2
       IN  EscapeAll(bytes, lo, mid) \o EscapeAll(bytes, mid + 1, hi)

\* b"..." with every byte escaped as needed.
Literal_byte_string(bytes) == <<98, 34>> \o EscapeAll(bytes, 1, Len(bytes)) \o <<34>>

HexValue(c) ==
  IF c >= 48 /\ c <= 57 THEN c - 48
  ELSE IF c >= 65 /\ c <= 70 THEN c - 55 ELSE c - 87

RECURSIVE Unescape(_, _)
Unescape(s, i) ==
  IF i > Len(s) THEN <<>>
  ELSE IF s[i] # 92 THEN <<s[i]>> \o Unescape(s, i + 1)
  ELSE LET c == s[i + 1]
       IN  IF c = 120
             THEN <<16 * HexValue(s[i + 2]) + HexValue(s[i + 3])>> \o Unescape(s, i + 4)
             ELSE <<(CASE c = 48  -> 0
                       [] c = 116 -> 9
                       [] c = 110 -> 10
                       [] c = 114 -> 13
                       [] OTHER   -> c)>> \o Unescape(s, i + 2)

\* The value of the literal text b"...".
ByteStrValue(text) == Unescape(SubSeq(text, 3, Len(text) - 1), 1)

----------------------------------------------------------------------------
(* The decoder embedded by use_litcrypt!: mod litcrypt_internal.           *)

\* The perturbed step: +2, wrapping to the other parity class.
next_index_perturbed(index, count) ==
  IF index + 2 < count THEN index + 2
  ELSE IF count % 2 = 0
         THEN (IF index + 2 = count THEN 1 ELSE 0)
         ELSE (IF index + 2 = count THEN 0 ELSE 1)

\* An off-by-one in the wrap test.
next_index_late_wrap(index, count) ==
  IF index + 1 <= count THEN index + 1 ELSE 0

next_index(index, count) ==
  IF index + 1 < count THEN index + 1 ELSE 0

InfiniteByteIterator_new(bytes) == [bytes |-> bytes, index |-> 0]

\* Iterator::next: the byte at self.index (a slice index, so out of range
\* panics) and the index the iterator moves to.
Iterator_next(it) ==
  IF it.index < Len(it.bytes)
    THEN [ok |-> TRUE, byte |-> it.bytes[it.index + 1],
          index |-> next_index(it.index, Len(it.bytes))]
    ELSE [ok |-> FALSE, byte |-> 0, index |-> it.index]

\* XOR with the byte on even positions only.
xor_with_byte_skipping(source, byte) ==
  [i \in 1..Len(source) |->
     IF i % 2 = 1 THEN ByteXor(source[i], byte) ELSE source[i]]

xor_with_byte(source, byte) ==
  [i \in 1..Len(source) |-> ByteXor(source[i], byte)]

\* source.iter().zip(key_iter).map(|(&a, b)| a ^ b).collect(), from
\* source[n] on with the iterator at it.
RECURSIVE ZipXor(_, _, _)
ZipXor(source, it, n) ==
  IF n > Len(source) THEN [ok |-> TRUE, bytes |-> <<>>]
  ELSE LET r == Iterator_next(it)
       IN  IF ~r.ok THEN [ok |-> FALSE, bytes |-> <<>>]
           ELSE LET rest == ZipXor(source, [it EXCEPT !.index = r.index], n + 1)
                IN  [ok |-> rest.ok,
                     bytes |-> IF rest.ok
                                 THEN <<ByteXor(source[n], r.byte)>> \o rest.bytes
                                 ELSE <<>>]

\* ok is FALSE when the call panics.
xor(source, key) ==
  CASE Len(key) = 0 -> [ok |-> TRUE, bytes |-> source]
    [] Len(key) = 1 -> [ok |-> TRUE, bytes |-> xor_with_byte(source, key[1])]
    [] OTHER -> ZipXor(source, InfiniteByteIterator_new(key), 1)

NoRet == [kind |-> "none", text |-> <<>>]
Panic == [kind |-> "panic", text |-> <<>>]

\* A lossy conversion: keeps what decodes.
from_utf8_lossy(bytes) == [kind |-> "ok", text |-> ValidPrefix(bytes, Len(bytes))]

\* String::from_utf8(decrypted).unwrap()
from_utf8_unwrap(bytes) ==
  IF Utf8Valid(bytes) THEN [kind |-> "ok", text |-> bytes] ELSE Panic

decrypt_bytes(encrypted_, encrypt_key_) ==
  LET d == xor(encrypted_, encrypt_key_)
  IN  IF d.ok THEN from_utf8_unwrap(d.bytes) ELSE Panic

----------------------------------------------------------------------------
(* The index-advance policies as the specification states them, and the    *)
(* build-time module xor (mod xor;), which the specification requires to   *)
(* implement the same policy as the embedded decoder.                      *)

PolicyA_advance(i, L) == (i + 1) % L

PolicyB_advance(i, L) ==
  IF i + 2 < L THEN i + 2
  ELSE IF L % 2 = 0
         THEN (IF i + 2 = L THEN 1 ELSE 0)
         ELSE (IF i + 2 = L THEN 0 ELSE 1)

Advance(policy, i, L) ==
  IF policy = "A" THEN PolicyA_advance(i, L) ELSE PolicyB_advance(i, L)

\* The index reached from i by n applications of a policy's advance: n steps
\* are n \div 2 steps followed by the rest (the test on j has the first half
\* evaluated before the second starts; an index is never negative).
RECURSIVE IndexAfter(_, _, _, _)
IndexAfter(policy, i, n, L) ==
  IF n = 0 THEN i
  ELSE IF n = 1 THEN Advance(policy, i, L)
  ELSE LET half == n \div 2
           j == IndexAfter(policy, i, half, L)
       IN  IF j < 0 THEN j ELSE IndexAfter(policy, j, n - half, L)

\* The n-th index (n = 0, 1, ...) of a policy's key stream: i_0 = 0.
IndexAt(policy, n, L) == IndexAfter(policy, 0, n, L)

\* data[n] XOR key[i_(n-1)] for every n; ok is FALSE when an index that is
\* read lies outside the key buffer.
KeyStreamXor(data, key, policy) ==
  IF \E n \in 1..Len(data) : IndexAt(policy, n - 1, Len(key)) >= Len(key)
    THEN [ok |-> FALSE, bytes |-> <<>>]
    ELSE [ok |-> TRUE,
          bytes |-> [n \in 1..Len(data) |->
                       ByteXor(data[n], key[IndexAt(policy, n - 1, Len(key)) + 1])]]

\* xor::xor, the build-time transform.
xor_xor(source, key) ==
  CASE Len(key) = 0 -> source
    [] Len(key) = 1 -> [i \in 1..Len(source) |-> ByteXor(source[i], key[1])]
    [] OTHER -> KeyStreamXor(source, key, "A").bytes

----------------------------------------------------------------------------
(* The build session: get_magic_spell, use_litcrypt!, lc!.                 *)

\* b"ESJCTVgWH5HQFza7GdRx"
FixedConstant ==
  <<69, 83, 74, 67, 84, 86, 103, 87, 72, 53, 72, 81, 70, 122, 97, 55, 71, 100, 82, 120>>

NoEnv == [present |-> FALSE, value |-> <<>>]
Env(v) == [present |-> TRUE, value |-> v]

\* LITCRYPT_ENCRYPT_KEY: unset, "", "abc", "x", and a value that is not Unicode.
EnvPool == {NoEnv, Env(<<>>), Env(<<97, 98, 99>>), Env(<<120>>), Env(<<255>>)}

\* What OsRng may write into the 64-byte buffer.
RandPool ==
  {[i \in 1..RAND_LEN |-> (37 * i + 11) % 256],
   [i \in 1..RAND_LEN |-> (101 * i + 200) % 256]}

\* Literal values handed to encrypt_string: "", "hi", "é", "Vold", "\"\\".
PlainPool ==
  {<<>>, <<104, 105>>, <<195, 169>>, <<86, 111, 108, 100>>, <<34, 92>>}

\* env::var: Err when the variable is unset or is not valid Unicode.
env_var(e) ==
  IF e.present /\ Utf8Valid(e.value)
    THEN [ok |-> TRUE, value |-> e.value]
    ELSE [ok |-> FALSE, value |-> <<>>]

Uninit == [init |-> FALSE, bytes |-> <<>>]

\* A cell that is filled again at every dereference.
RAND_SPELL_refill(cell, fresh) ==
  [cell |-> [init |-> TRUE, bytes |-> fresh], filled |-> TRUE]

\* lazy_static: the initialiser runs at the first dereference only.
RAND_SPELL_deref(cell, fresh) ==
  IF cell.init
    THEN [cell |-> cell, filled |-> FALSE]
    ELSE [cell |-> [init |-> TRUE, bytes |-> fresh], filled |-> TRUE]

\* An empty override taken for no override.
get_magic_spell_nonempty(e, cell, fresh) ==
  LET r == env_var(e)
  IN  IF r.ok /\ r.value # <<>>
        THEN [spell |-> r.value, cell |-> cell, filled |-> FALSE]
        ELSE LET c == RAND_SPELL_deref(cell, fresh)
             IN  [spell |-> c.cell.bytes, cell |-> c.cell, filled |-> c.filled]

\* fresh: what OsRng would write if the cell is initialised by this call.
get_magic_spell(e, cell, fresh) ==
  LET r == env_var(e)
  IN  IF r.ok
        THEN [spell |-> r.value, cell |-> cell, filled |-> FALSE]
        ELSE LET c == RAND_SPELL_deref(cell, fresh)
             IN  [spell |-> c.cell.bytes, cell |-> c.cell, filled |-> c.filled]

\* The raw key emitted as it is.
use_litcrypt_ekey_raw(magic_spell) == magic_spell

\* let ekey = xor::xor(&magic_spell, b"ESJCTVgWH5HQFza7GdRx");
use_litcrypt_ekey(magic_spell) == xor_xor(magic_spell, FixedConstant)

\* The literal encoded under the raw key.
encrypt_string_raw(something, magic_spell) ==
  Literal_byte_string(xor_xor(something, magic_spell))

\* The literal text spliced into decrypt_bytes(#encrypted, crate::LITCRYPT_ENCRYPT_KEY).
encrypt_string(something, magic_spell) ==
  LET encrypt_key_ == xor_xor(magic_spell, FixedConstant)
  IN  Literal_byte_string(xor_xor(something, encrypt_key_))

\* The bookkeeping of one get_magic_spell call that returned m.
Acquire(m) ==
  /\ RAND_SPELL' = m.cell
  /\ rngFills' = rngFills + (IF m.filled THEN 1 ELSE 0)
  /\ envReads' = envReads + 1
  /\ acquires' = acquires + 1
  /\ firstSpell' = IF acquires = 0 THEN m.spell ELSE firstSpell
  /\ lastSpell' = m.spell

UseLitcrypt ==
  /\ phase = "build"
  /\ ~LITCRYPT_ENCRYPT_KEY.set
  /\ \E fresh \in RandPool :
       LET m == get_magic_spell(env, RAND_SPELL, fresh)
       IN  /\ Acquire(m)
           /\ LITCRYPT_ENCRYPT_KEY' =
                [set |-> TRUE, text |-> Literal_byte_string(use_litcrypt_ekey(m.spell))]
  /\ UNCHANGED <<env, literals, phase, runVars>>

\* lc!, lc_env! and lc_dynamic! each end in encrypt_string(something).
EncryptString(something) ==
  /\ phase = "build"
  /\ Len(literals) < MaxLits
  /\ \E fresh \in RandPool :
       LET m == get_magic_spell(env, RAND_SPELL, fresh)
       IN  /\ Acquire(m)
           /\ literals' = Append(literals,
                [plain |-> something,
                 enc |-> encrypt_string(something, m.spell),
                 spell |-> m.spell])
  /\ UNCHANGED <<env, LITCRYPT_ENCRYPT_KEY, phase, runVars>>

\* The expanded crate compiles; it resolves crate::litcrypt_internal and
\* crate::LITCRYPT_ENCRYPT_KEY only if use_litcrypt! was expanded.
Compile ==
  /\ phase = "build"
  /\ LITCRYPT_ENCRYPT_KEY.set
  /\ phase' = "run"
  /\ UNCHANGED <<buildVars, runVars>>

----------------------------------------------------------------------------
(* The compiled program: calls of litcrypt_internal::decrypt_bytes.        *)

RECURSIVE Voldemort(_)
Voldemort(n) ==
  IF n = 0 THEN <<>>
  ELSE Append(Voldemort(n - 1),
              <<86, 111, 108, 100, 101, 109, 111, 114, 116>>[((n - 1) % 9) + 1])

Key(n) == [i \in 1..n |-> 96 + i]

\* Arguments of direct calls: prefixes of "Voldemort...", "é", "€", and
\* "A" followed by a byte that is not UTF-8.
DataPool ==
  {Voldemort(n) : n \in 0..MaxDataLen}
    \cup {<<195, 169>>, <<226, 130, 172>>, <<65, 255>>}

\* "", "a", "ab", "abc", ..., and keys with high bits set.
KeyPool == {Key(n) : n \in 0..MaxKeyLen} \cup {<<200>>, <<130, 3>>}

\* The calls the threads of the concurrent program make.
ConcInputs ==
  {<<Voldemort(MaxDataLen), Key(2)>>,
   <<Voldemort(MaxDataLen), Key(MaxKeyLen)>>,
   <<<<195, 169>>, <<200>>>>}

IdleIter == InfiniteByteIterator_new(<<>>)

\* One index shared by every iterator.
StoreIndexShared(iters, t, v) ==
  [u \in DOMAIN iters |-> [iters[u] EXCEPT !.index = v]]

\* self.index = ...: the field of this call's own iterator.
StoreIndex(iters, t, v) == [iters EXCEPT ![t].index = v]

\* decrypt_bytes(e, k) entered; xor matches on key.len().
Enter(t, s, e, k) ==
  /\ phase = "run"
  /\ pc[t] = "idle"
  /\ site' = [site EXCEPT ![t] = s]
  /\ encrypted' = [encrypted EXCEPT ![t] = e]
  /\ encrypt_key' = [encrypt_key EXCEPT ![t] = k]
  /\ decrypted' = [decrypted EXCEPT ![t] = IF Len(k) = 0 THEN e ELSE <<>>]
  /\ key_iter' = [key_iter EXCEPT
                    ![t] = IF Len(k) >= 2 THEN InfiniteByteIterator_new(k) ELSE IdleIter]
  /\ pc' = [pc EXCEPT ![t] = CASE Len(k) = 0 -> "utf8"
                               [] Len(k) = 1 -> "byte"
                               [] OTHER -> "zip"]
  /\ UNCHANGED <<visited, ret, buildVars, phase>>

\* The expression lc! left at site i runs.
CallSite(t, i) ==
  /\ i \in 1..Len(literals)
  /\ Enter(t, i, ByteStrValue(literals[i].enc), ByteStrValue(LITCRYPT_ENCRYPT_KEY.text))

\* The program calls the public decrypt_bytes itself.
CallDirect(t, e, k) == Enter(t, 0, e, k)

XorWithByte(t) ==
  /\ pc[t] = "byte"
  /\ decrypted' = [decrypted EXCEPT ![t] = xor_with_byte(encrypted[t], encrypt_key[t][1])]
  /\ pc' = [pc EXCEPT ![t] = "utf8"]
  /\ UNCHANGED <<site, encrypted, encrypt_key, key_iter, visited, ret, buildVars, phase>>

\* One element of source.iter().zip(key_iter).map(|(&a, b)| a ^ b).
ZipStep(t) ==
  /\ pc[t] = "zip"
  /\ Len(decrypted[t]) < Len(encrypted[t])
  /\ LET r == Iterator_next(key_iter[t])
     IN  IF r.ok
           THEN /\ decrypted' = [decrypted EXCEPT
                      ![t] = Append(@, ByteXor(encrypted[t][Len(@) + 1], r.byte))]
                /\ key_iter' = StoreIndex(key_iter, t, r.index)
                /\ visited' = [visited EXCEPT ![t] = Append(@, key_iter[t].index)]
                /\ UNCHANGED <<pc, ret>>
           ELSE /\ pc' = [pc EXCEPT ![t] = "panicked"]
                /\ ret' = [ret EXCEPT ![t] = Panic]
                /\ UNCHANGED <<decrypted, key_iter, visited>>
  /\ UNCHANGED <<site, encrypted, encrypt_key, buildVars, phase>>

\* source is exhausted: collect() returns the Vec.
Collect(t) ==
  /\ pc[t] = "zip"
  /\ Len(decrypted[t]) = Len(encrypted[t])
  /\ pc' = [pc EXCEPT ![t] = "utf8"]
  /\ UNCHANGED <<site, encrypted, encrypt_key, key_iter, decrypted, visited, ret,
                 buildVars, phase>>

FromUtf8(t) ==
  /\ pc[t] = "utf8"
  /\ LET r == from_utf8_unwrap(decrypted[t])
     IN  /\ ret' = [ret EXCEPT ![t] = r]
         /\ pc' = [pc EXCEPT ![t] = IF r.kind = "ok" THEN "returned" ELSE "panicked"]
  /\ UNCHANGED <<site, encrypted, encrypt_key, key_iter, decrypted, visited,
                 buildVars, phase>>

\* The caller drops the String; the thread may call again.
Again(t) ==
  /\ pc[t] = "returned"
  /\ pc' = [pc EXCEPT ![t] = "idle"]
  /\ site' = [site EXCEPT ![t] = 0]
  /\ encrypted' = [encrypted EXCEPT ![t] = <<>>]
  /\ encrypt_key' = [encrypt_key EXCEPT ![t] = <<>>]
  /\ key_iter' = [key_iter EXCEPT ![t] = IdleIter]
  /\ decrypted' = [decrypted EXCEPT ![t] = <<>>]
  /\ visited' = [visited EXCEPT ![t] = <<>>]
  /\ ret' = [ret EXCEPT ![t] = NoRet]
  /\ UNCHANGED <<buildVars, phase>>

----------------------------------------------------------------------------
(* Specifications *)

InitRun ==
  /\ pc = [t \in Threads |-> "idle"]
  /\ site = [t \in Threads |-> 0]
  /\ encrypted = [t \in Threads |-> <<>>]
  /\ encrypt_key = [t \in Threads |-> <<>>]
  /\ key_iter = [t \in Threads |-> IdleIter]
  /\ decrypted = [t \in Threads |-> <<>>]
  /\ visited = [t \in Threads |-> <<>>]
  /\ ret = [t \in Threads |-> NoRet]

\* A compiler process starts with its environment set or not.
Init ==
  /\ env \in EnvPool
  /\ RAND_SPELL = Uninit
  /\ rngFills = 0
  /\ envReads = 0
  /\ acquires = 0
  /\ firstSpell = <<>>
  /\ lastSpell = <<>>
  /\ LITCRYPT_ENCRYPT_KEY = [set |-> FALSE, text |-> <<>>]
  /\ literals = <<>>
  /\ phase = "build"
  /\ InitRun

\* The build session, then the program's main thread running the lc! sites.
Next ==
  \/ UseLitcrypt
  \/ \E p \in PlainPool : EncryptString(p)
  \/ Compile
  \/ \E i \in 1..MaxLits : CallSite(1, i)
  \/ XorWithByte(1)
  \/ ZipStep(1)
  \/ Collect(1)
  \/ FromUtf8(1)
  \/ Again(1)

Spec == Init /\ [][Next]_vars

\* A program built with LITCRYPT_ENCRYPT_KEY=abc and only use_litcrypt!
\* expanded, about to run.
InitConc ==
  /\ env = Env(<<97, 98, 99>>)
  /\ RAND_SPELL = Uninit
  /\ rngFills = 0
  /\ envReads = 1
  /\ acquires = 1
  /\ firstSpell = <<97, 98, 99>>
  /\ lastSpell = <<97, 98, 99>>
  /\ LITCRYPT_ENCRYPT_KEY =
       [set |-> TRUE, text |-> Literal_byte_string(use_litcrypt_ekey(<<97, 98, 99>>))]
  /\ literals = <<>>
  /\ phase = "run"
  /\ InitRun

\* The program's main thread calling decrypt_bytes on arbitrary arguments.
NextXor ==
  \/ \E e \in DataPool, k \in KeyPool : CallDirect(1, e, k)
  \/ XorWithByte(1)
  \/ ZipStep(1)
  \/ Collect(1)
  \/ FromUtf8(1)
  \/ Again(1)

SpecXor == InitConc /\ [][NextXor]_vars

\* The program's threads calling decrypt_bytes concurrently.
NextConc ==
  \E t \in Threads :
    \/ \E c \in ConcInputs : CallDirect(t, c[1], c[2])
    \/ XorWithByte(t)
    \/ ZipStep(t)
    \/ Collect(t)
    \/ FromUtf8(t)
    \/ Again(t)

SpecConc == InitConc /\ [][NextConc]_vars

----------------------------------------------------------------------------
(* Properties *)

Ok(text) == [kind |-> "ok", text |-> text]

\* The thread's decrypt_bytes call has ended, by returning or by panicking.
Ended(t) == pc[t] \in {"returned", "panicked"}

\* The xor call of the thread has returned its Vec.
XorReturned(t) == pc[t] \in {"utf8", "returned"}

\* The embedded carrier key, as the program reads it.
CarrierBytes == ByteStrValue(LITCRYPT_ENCRYPT_KEY.text)

IsPrefix(a, b) == Len(a) <= Len(b) /\ SubSeq(b, 1, Len(a)) = a

\* C1: round trip. A decrypt_bytes call made by the expression lc! left at a
\* site, on the literal emitted there and the LITCRYPT_ENCRYPT_KEY emitted by
\* use_litcrypt! in the same session, ends by returning exactly the plaintext
\* given to encrypt_string.
C1_RoundTrip ==
  \A t \in Threads :
    (Ended(t) /\ site[t] # 0) => ret[t] = Ok(literals[site[t]].plain)

\* C1 witness: "Vold" (longer than the key) encoded under the override "abc"
\* has been decoded at its site.
C1_Witness ==
  \E t \in Threads :
    /\ pc[t] = "returned" /\ site[t] # 0
    /\ literals[site[t]].plain = <<86, 111, 108, 100>>
    /\ literals[site[t]].spell = <<97, 98, 99>>

\* C2 as stated: every literal is encoded under the raw key get_magic_spell
\* returned, and the key the decoder XORs with is that raw key (recovered
\* from the carrier).
C2_Original ==
  /\ \A i \in 1..Len(literals) :
       ByteStrValue(literals[i].enc) = xor_xor(literals[i].plain, literals[i].spell)
  /\ \A t \in Threads :
       (pc[t] # "idle" /\ site[t] # 0) => encrypt_key[t] = literals[site[t]].spell

\* C2 amended: every literal is encoded under the carrier key
\* xor(raw key, fixed constant), and the decoder XORs with the embedded
\* carrier key as it is, without reversing the constant.
C2_CarrierIsKey ==
  /\ \A i \in 1..Len(literals) :
       ByteStrValue(literals[i].enc) =
         xor_xor(literals[i].plain, xor_xor(literals[i].spell, FixedConstant))
  /\ \A t \in Threads :
       (pc[t] # "idle" /\ site[t] # 0) =>
         /\ encrypt_key[t] = CarrierBytes
         /\ encrypt_key[t] = xor_xor(literals[site[t]].spell, FixedConstant)

\* C2 witness: a non-empty literal under a non-empty key is being decoded.
C2_Witness ==
  \E t \in Threads :
    /\ pc[t] = "zip" /\ site[t] # 0
    /\ Len(decrypted[t]) >= 1
    /\ literals[site[t]].spell = <<97, 98, 99>>

\* C3 as stated: every get_magic_spell call returns what the first returned,
\* the random buffer is generated at most once, and the override is read
\* once in the session.
C3_Original ==
  /\ (acquires >= 1 => lastSpell = firstSpell)
  /\ rngFills <= 1
  /\ envReads <= 1

\* C3 amended: every get_magic_spell call returns what the first returned
\* (the environment of the process staying as it was), the random buffer is
\* generated at most once, and the override is read by every call.
C3_SessionDeterminism ==
  /\ (acquires >= 1 => lastSpell = firstSpell)
  /\ \A i \in 1..Len(literals) : literals[i].spell = firstSpell
  /\ rngFills <= 1
  /\ (RAND_SPELL.init <=> rngFills = 1)
  /\ envReads = acquires

\* C3 witness: two calls on the random path.
C3_Witness == acquires >= 2 /\ RAND_SPELL.init /\ Len(lastSpell) = RAND_LEN

\* The iterator of a general-path xor call, and the length of its key.
Zipping(t) == pc[t] # "idle" /\ Len(key_iter[t].bytes) >= 2

\* C4 amended: for every key length L >= 2 the embedded iterator, which
\* advances by next_index(i, L) = i + 1 if i + 1 < L, else 0, never holds or
\* reads an index outside [0, L), reads L distinct indices in its first L
\* steps, and is back at 0 after exactly L steps and not before.
C4_Permutation ==
  \A t \in Threads :
    Zipping(t) =>
      LET L == Len(key_iter[t].bytes)
          v == visited[t]
      IN  /\ key_iter[t].index \in 0..(L - 1)
          /\ \A n \in 1..Len(v) : v[n] \in 0..(L - 1)
          /\ \A m \in 1..Len(v), n \in 1..Len(v) : (m < n /\ n <= L) => v[m] # v[n]
          /\ (Len(v) >= 1 /\ Len(v) < L) => key_iter[t].index # 0
          /\ Len(v) = L => key_iter[t].index = 0

\* C4 as stated: the same, of an iterator that advances by the perturbed
\* rule (i + 2, wrapping by parity).
C4_Original ==
  /\ C4_Permutation
  /\ \A t \in Threads :
       Zipping(t) =>
         key_iter[t].index = IndexAt("B", Len(visited[t]), Len(key_iter[t].bytes))

\* C4 witness: an iterator over the longest key has gone round once.
C4_Witness ==
  \E t \in Threads :
    /\ Zipping(t)
    /\ Len(key_iter[t].bytes) = MaxKeyLen
    /\ Len(visited[t]) = MaxKeyLen
    /\ key_iter[t].index = 0

\* C5: once xor has returned under a non-empty key, its output is as long as
\* its input and xor of the output under the same key is the input.
C5_SelfInverse ==
  \A t \in Threads :
    (XorReturned(t) /\ Len(encrypt_key[t]) >= 1) =>
      /\ Len(decrypted[t]) = Len(encrypted[t])
      /\ xor(decrypted[t], encrypt_key[t]) = [ok |-> TRUE, bytes |-> encrypted[t]]

\* C5 witness: the key has been cycled over longer data.
C5_Witness ==
  \E t \in Threads :
    /\ XorReturned(t)
    /\ Len(encrypt_key[t]) >= 2
    /\ Len(encrypted[t]) > Len(encrypt_key[t])
    /\ decrypted[t] # encrypted[t]

\* The thread's xor call took the single-byte path and has returned.
SingleByte(t) == XorReturned(t) /\ Len(encrypt_key[t]) = 1

\* C6 as stated: the single-byte path gives what the key stream over the
\* one-byte key gives, under policy A and under policy B alike.
C6_Original ==
  \A t \in Threads :
    SingleByte(t) =>
      /\ KeyStreamXor(encrypted[t], encrypt_key[t], "A") =
           [ok |-> TRUE, bytes |-> decrypted[t]]
      /\ KeyStreamXor(encrypted[t], encrypt_key[t], "B") =
           [ok |-> TRUE, bytes |-> decrypted[t]]

\* C6 amended: the single-byte path gives what the embedded general path
\* (the infinite iterator advanced by next_index) gives on the one-byte key,
\* which is policy A's stream: the index stays 0. Policy B's advance(0, 1)
\* is 1, outside the buffer, so its stream does not exist past one byte.
C6_SingleByte ==
  \A t \in Threads :
    SingleByte(t) =>
      /\ ZipXor(encrypted[t], InfiniteByteIterator_new(encrypt_key[t]), 1) =
           [ok |-> TRUE, bytes |-> decrypted[t]]
      /\ KeyStreamXor(encrypted[t], encrypt_key[t], "A") =
           [ok |-> TRUE, bytes |-> decrypted[t]]
      /\ next_index(0, 1) = 0
      /\ (Len(encrypted[t]) >= 2 => ~KeyStreamXor(encrypted[t], encrypt_key[t], "B").ok)

\* C6 witness: a one-byte key has been applied to three or more bytes.
C6_Witness ==
  \E t \in Threads :
    SingleByte(t) /\ Len(encrypted[t]) >= 3 /\ decrypted[t] # encrypted[t]

\* C7: a call that returned returns exactly the XOR-ed bytes, which are
\* valid UTF-8; a call that panicked returned no text, and the XOR-ed bytes
\* are not valid UTF-8.
C7_DecodeFailureFatal ==
  \A t \in Threads :
    LET d == xor(encrypted[t], encrypt_key[t])
    IN  /\ pc[t] = "returned" => (d.ok /\ Utf8Valid(d.bytes) /\ ret[t] = Ok(d.bytes))
        /\ pc[t] = "panicked" => (d.ok /\ ~Utf8Valid(d.bytes) /\ ret[t] = Panic)
        /\ ~Ended(t) => ret[t] = NoRet

\* C7 witness: a call panicked on bytes whose first byte alone is valid text.
C7_Witness ==
  \E t \in Threads :
    /\ pc[t] = "panicked"
    /\ Len(decrypted[t]) >= 2
    /\ Utf8Valid(SubSeq(decrypted[t], 1, 1))

\* C8 as stated: for key lengths L >= 2 the embedded next_index is policy
\* B's advance on every index of [0, L), and the n-th key byte read is the one
\* at policy B's n-th index.
C8_Original ==
  \A t \in Threads :
    Zipping(t) =>
      LET L == Len(key_iter[t].bytes)
      IN  /\ \A i \in 0..(L - 1) : next_index(i, L) = PolicyB_advance(i, L)
          /\ \A n \in 1..Len(visited[t]) : visited[t][n] = IndexAt("B", n - 1, L)

\* C8 amended: for key lengths L >= 2 the embedded next_index is policy A's
\* advance, (i + 1) mod L, on every index of [0, L), and the n-th key byte
\* read is the one at policy A's n-th index.
C8_PolicyA ==
  \A t \in Threads :
    Zipping(t) =>
      LET L == Len(key_iter[t].bytes)
      IN  /\ \A i \in 0..(L - 1) : next_index(i, L) = PolicyA_advance(i, L)
          /\ \A n \in 1..Len(visited[t]) : visited[t][n] = IndexAt("A", n - 1, L)

\* C8 witness: a key of three or more bytes has been read past its second
\* index, where the two policies part.
C8_Witness ==
  \E t \in Threads :
    /\ Zipping(t)
    /\ Len(key_iter[t].bytes) >= 3
    /\ Len(visited[t]) >= 3

\* C9: with the threads' calls interleaved step by step, what a thread has
\* collected is always a prefix of what the call gives when run alone, and a
\* call that ended has the outcome it has when run alone.
C9_ThreadSafe ==
  \A t \in Threads :
    LET alone == xor(encrypted[t], encrypt_key[t])
    IN  /\ pc[t] # "idle" => (alone.ok /\ IsPrefix(decrypted[t], alone.bytes))
        /\ XorReturned(t) => decrypted[t] = alone.bytes
        /\ Ended(t) => ret[t] = decrypt_bytes(encrypted[t], encrypt_key[t])

\* C9 witness: one call has returned a key-cycled text while another thread,
\* under another key, is in the middle of its key stream.
C9_Witness ==
  \E t \in Threads, u \in Threads :
    /\ t # u
    /\ pc[t] = "returned" /\ Len(visited[t]) > Len(encrypt_key[t])
    /\ pc[u] = "zip" /\ Len(visited[u]) >= 1 /\ Len(visited[u]) < Len(encrypted[u])
    /\ encrypt_key[u] # encrypt_key[t]

\* C10: with LITCRYPT_ENCRYPT_KEY set to the empty string, get_magic_spell
\* returns an empty key and the random buffer is never generated, the carrier
\* key is empty, every emitted literal holds the plaintext bytes as they are,
\* and decoding at the site returns the plaintext.
C10_EmptyOverride ==
  (env.present /\ env.value = <<>>) =>
    /\ firstSpell = <<>> /\ lastSpell = <<>>
    /\ rngFills = 0 /\ ~RAND_SPELL.init
    /\ LITCRYPT_ENCRYPT_KEY.set => CarrierBytes = <<>>
    /\ \A i \in 1..Len(literals) :
         literals[i].spell = <<>> /\ ByteStrValue(literals[i].enc) = literals[i].plain
    /\ \A t \in Threads :
         (Ended(t) /\ site[t] # 0) => ret[t] = Ok(literals[site[t]].plain)

\* C10 witness: under the empty override, "é" was embedded as it is and
\* decoded at its site.
C10_Witness ==
  /\ env.present /\ env.value = <<>>
  /\ \E t \in Threads :
       /\ pc[t] = "returned" /\ site[t] # 0
       /\ literals[site[t]].plain = <<195, 169>>
       /\ encrypted[t] = <<195, 169>>

============================================================================
